---------------------------- MODULE Spec2Model ----------------------------
(***************************************************************************)
(* Ballot Finder & Printer (src/app.py).                                   *)
(*                                                                         *)
(* Strings are modelled as sequences of one-character strings, so that     *)
(* trimming, pattern matching, splitting, lower-casing and substring       *)
(* tests are computed character by character, as Python computes them.     *)
(***************************************************************************)
EXTENDS Naturals, Integers, Sequences, FiniteSets, TLC

(***************************************************************************)
(* Characters                                                              *)
(***************************************************************************)

\* str.strip() with no argument removes these (and other Unicode spaces).
Whitespace == {" ", "\t", "\n"}

\* The class \d of a Python str pattern: the decimal digits, ASCII or not
\* ("u0663" stands for ARABIC-INDIC DIGIT THREE).
Digit == {"0", "1", "2", "3", "4", "5", "6", "7", "8", "9", "u0663"}

\* The class [._] of the precinct pattern.
Separator == {".", "_"}

\* The counts of the pattern (\d{4})[._](\d{3}).
PrecinctDigits == 4
SplitDigits == 3

(***************************************************************************)
(* Sequence helpers                                                        *)
(***************************************************************************)

RECURSIVE Concat(_)
Concat(ss) == IF ss = <<>> THEN <<>> ELSE Head(ss) \o Concat(Tail(ss))

Range(f) == {f[i] : i \in DOMAIN f}

SeqsUpTo(S, n) == UNION {[1..k -> S] : k \in 0..n}

\* str.lstrip() / str.rstrip() / str.strip()
RECURSIVE lstrip(_)
lstrip(s) ==
    IF s = <<>> THEN s
    ELSE IF Head(s) \in Whitespace THEN lstrip(Tail(s)) ELSE s

RECURSIVE rstrip(_)
rstrip(s) ==
    IF s = <<>> THEN s
    ELSE IF s[Len(s)] \in Whitespace THEN rstrip(SubSeq(s, 1, Len(s) - 1)) ELSE s

strip(s) == rstrip(lstrip(s))

(***************************************************************************)
(* The precinct pattern r"(\d{4})[._](\d{3})" and re.fullmatch             *)
(***************************************************************************)

\* One pattern item: a character class repeated exactly count times, and
\* whether the item is a capturing group.
PrecinctPattern ==
    << [class |-> Digit,     count |-> PrecinctDigits, group |-> TRUE],
       [class |-> Separator, count |-> 1,              group |-> FALSE],
       [class |-> Digit,     count |-> SplitDigits,    group |-> TRUE] >>

NoMatch == [matched |-> FALSE, groups |-> <<>>]

\* Match the items of pat against s from its start, each item consuming
\* exactly count characters of its class; the match is a full match only
\* when nothing of s is left after the last item.
RECURSIVE MatchItems(_, _, _)
MatchItems(pat, s, groups) ==
    IF pat = <<>>
    THEN IF s = <<>> THEN [matched |-> TRUE, groups |-> groups] ELSE NoMatch
    ELSE LET it == Head(pat) IN
         IF /\ Len(s) >= it.count
            /\ \A i \in 1..it.count : s[i] \in it.class
         THEN MatchItems(Tail(pat),
                         SubSeq(s, it.count + 1, Len(s)),
                         IF it.group
                         THEN Append(groups, SubSeq(s, 1, it.count))
                         ELSE groups)
         ELSE NoMatch

fullmatch(pat, s) == MatchItems(pat, s, <<>>)

FormatHint == "Use format ####.### (e.g., 1774.234)"

\* validate_precinct_split, with re.match in place of re.fullmatch: text
\* after the three digits is accepted.
RECURSIVE MatchPrefix(_, _, _)
MatchPrefix(pat, s, groups) ==
    IF pat = <<>>
    THEN [matched |-> TRUE, groups |-> groups]
    ELSE LET it == Head(pat) IN
         IF /\ Len(s) >= it.count
            /\ \A i \in 1..it.count : s[i] \in it.class
         THEN MatchPrefix(Tail(pat),
                          SubSeq(s, it.count + 1, Len(s)),
                          IF it.group
                          THEN Append(groups, SubSeq(s, 1, it.count))
                          ELSE groups)
         ELSE NoMatch

validate_precinct_split_prefix(s) ==
    LET t == strip(s)
        m == MatchPrefix(PrecinctPattern, t, <<>>)
    IN  IF ~m.matched
        THEN [ok |-> FALSE, value |-> FormatHint]
        ELSE [ok |-> TRUE, value |-> m.groups[1] \o <<".">> \o m.groups[2]]

validate_precinct_split(s) ==
    LET t == strip(s)
        m == fullmatch(PrecinctPattern, t)
    IN  IF ~m.matched
        THEN [ok |-> FALSE, value |-> FormatHint]
        ELSE [ok |-> TRUE, value |-> m.groups[1] \o <<".">> \o m.groups[2]]

(***************************************************************************)
(* build_candidates                                                        *)
(***************************************************************************)

\* str.split(sep) for a one-character separator: the pieces between the
\* occurrences of sep, left to right.
RECURSIVE SplitFrom(_, _, _)
SplitFrom(s, sep, cur) ==
    IF s = <<>> THEN <<cur>>
    ELSE IF Head(s) = sep
         THEN <<cur>> \o SplitFrom(Tail(s), sep, <<>>)
         ELSE SplitFrom(Tail(s), sep, Append(cur, Head(s)))

split(s, sep) == SplitFrom(s, sep, <<>>)

\* build_candidates with the two forms in the other order.
build_candidates_swapped(prec_dot) ==
    LET parts == split(prec_dot, ".")
        p4 == parts[1]
        p3 == parts[2]
    IN  << p4 \o <<"_">> \o p3, p4 \o <<".">> \o p3 >>

\* "p4, p3 = prec_dot.split('.')" unpacks exactly two pieces (ValueError
\* otherwise, which no canonical form reaches).
build_candidates(prec_dot) ==
    LET parts == split(prec_dot, ".")
        p4 == parts[1]
        p3 == parts[2]
    IN  << p4 \o <<".">> \o p3, p4 \o <<"_">> \o p3 >>

(***************************************************************************)
(* State                                                                   *)
(***************************************************************************)

VARIABLES
    \* the application and its environment
    cfg,            \* App.cfg: the loaded config.json
    fs,             \* the directory trees under the two search roots
    stateFile,      \* the file at STATE_PATH
    var_split,      \* App.var_split: the text of the precinct entry
    var_lang,       \* App.var_lang: the language chosen in the combobox
    var_ballot,     \* App.var_ballot: the ballot type (its combobox is disabled)
    pc,             \* "idle", or "choosing" while choose_from_list waits
    \* the current (or last) run of on_find_print
    run,
    inflight,       \* calls of on_find_print that have not returned
    act,            \* the current run of on_test_paths or on_open_log
    \* pure-function harnesses
    vIn, vOut, vNeedles, vpc,
    fArgs, fOut, fpc,
    \* startup
    env,            \* sys.frozen, sys._MEIPASS, sys.executable, __file__, "~"
    configFile,     \* config.json next to the application
    LOG_PATH,       \* the global set by setup_logging
    mpc,            \* where main() is
    window,         \* TRUE once App(cfg) has been constructed
    fatal           \* what main's except clause did

appVars == <<cfg, fs, stateFile, var_split, var_lang, var_ballot, pc, run,
             inflight, act>>
validateVars == <<vIn, vOut, vNeedles, vpc>>
findVars == <<fArgs, fOut, fpc>>
startVars == <<env, configFile, LOG_PATH, mpc, window, fatal>>
vars == <<cfg, fs, stateFile, var_split, var_lang, var_ballot, pc, run,
          inflight, act,
          vIn, vOut, vNeedles, vpc, fArgs, fOut, fpc,
          env, configFile, LOG_PATH, mpc, window, fatal>>

(***************************************************************************)
(* Text used in file names, needles and ballot types                       *)
(***************************************************************************)

P1704dot == <<"1", "7", "0", "4", ".", "1", "2", "3">>
P1704us  == <<"1", "7", "0", "4", "_", "1", "2", "3">>
P6432dot == <<"6", "4", "3", "2", ".", "7", "3", "2">>
P6432us  == <<"6", "4", "3", "2", "_", "7", "3", "2">>
P170dot  == <<"1", "7", "0", ".", "1", "2", "3">>

T_STND  == <<"S", "T", "N", "D">>
T_stnd  == <<"s", "t", "n", "d">>
T_U18   == <<"U", "1", "8">>
T_PND18 == <<"P", "N", "D", "1", "8">>
T_pNd18 == <<"p", "N", "d", "1", "8">>

Us     == <<"_">>
V2     == <<"_", "v", "2">>
ExtPdf == <<".", "p", "d", "f">>
ExtPDF == <<".", "P", "D", "F">>
ExtTxt == <<".", "t", "x", "t">>

(***************************************************************************)
(* str.lower(), substring tests                                            *)
(***************************************************************************)

UpperToLower ==
    [c \in {"A", "B", "C", "D", "E", "F", "G", "H", "I", "J", "K", "L", "M",
            "N", "O", "P", "Q", "R", "S", "T", "U", "V", "W", "X", "Y", "Z"} |->
        CASE c = "A" -> "a" [] c = "B" -> "b" [] c = "C" -> "c" [] c = "D" -> "d"
          [] c = "E" -> "e" [] c = "F" -> "f" [] c = "G" -> "g" [] c = "H" -> "h"
          [] c = "I" -> "i" [] c = "J" -> "j" [] c = "K" -> "k" [] c = "L" -> "l"
          [] c = "M" -> "m" [] c = "N" -> "n" [] c = "O" -> "o" [] c = "P" -> "p"
          [] c = "Q" -> "q" [] c = "R" -> "r" [] c = "S" -> "s" [] c = "T" -> "t"
          [] c = "U" -> "u" [] c = "V" -> "v" [] c = "W" -> "w" [] c = "X" -> "x"
          [] c = "Y" -> "y" [] c = "Z" -> "z"]

UpperLetters == DOMAIN UpperToLower
LowerLetters == Range(UpperToLower)

\* str.lower() on the characters the model uses: every upper-case letter
\* becomes its lower-case letter, every other character stays.
lower(s) ==
    [i \in 1..Len(s) |-> IF s[i] \in UpperLetters THEN UpperToLower[s[i]] ELSE s[i]]

\* "sub in s"
contains(s, sub) ==
    \E i \in 0..(Len(s) - Len(sub)) : SubSeq(s, i + 1, i + Len(sub)) = sub

\* s.endswith(suf)
endswith(s, suf) ==
    /\ Len(s) >= Len(suf)
    /\ SubSeq(s, Len(s) - Len(suf) + 1, Len(s)) = suf

(***************************************************************************)
(* The filesystem under a search root                                      *)
(*                                                                         *)
(* A root is NoEntry (the path does not exist) or a directory whose        *)
(* entries map a language directory name to NoEntry, PlainFile or a        *)
(* directory node.  A directory node lists its files and its               *)
(* subdirectories in the order the directory listing returns them.         *)
(***************************************************************************)

NoEntry   == [kind |-> "none"]
PlainFile == [kind |-> "file"]
DirNode(files, dirs) == [kind |-> "dir", files |-> files, dirs |-> dirs]
SubDir(name, node) == [name |-> name, node |-> node]
RootDir(entries) == [kind |-> "dir", entries |-> entries]

\* os.path.join(base_dir, lang_dirname), as the pair of its components
\* looked up in fs.
LangEntry(base_dir, lang_dirname) ==
    IF base_dir \notin DOMAIN fs THEN NoEntry
    ELSE LET r == fs[base_dir] IN
         IF r.kind # "dir" THEN NoEntry
         ELSE IF lang_dirname \notin DOMAIN r.entries THEN NoEntry
         ELSE r.entries[lang_dirname]

\* os.path.isdir(lang_path)
isdir(base_dir, lang_dirname) == LangEntry(base_dir, lang_dirname).kind = "dir"

\* os.walk(top), top-down: the directory itself, then each subdirectory's
\* walk in listing order.  Each element is (root, files).
RECURSIVE walk(_, _)
RECURSIVE WalkDirs(_, _)
walk(path, node) ==
    <<[root |-> path, files |-> node.files]>> \o WalkDirs(path, node.dirs)

WalkDirs(path, dirs) ==
    IF dirs = <<>> THEN <<>>
    ELSE walk(Append(path, Head(dirs).name), Head(dirs).node)
         \o WalkDirs(path, Tail(dirs))

\* os.path.join(root, fn)
joinpath(root, fn) == [dir |-> root, name |-> fn]

(***************************************************************************)
(* find_pdf                                                                *)
(***************************************************************************)

\* The case-insensitive test with the ballot type looked for in the file
\* name as stored instead of in its lower-cased form.
MatchesLowered_rawname(fn, needle_parts_l, ballot_l) ==
    /\ endswith(lower(fn), ExtPdf)
    /\ (\E i \in DOMAIN needle_parts_l : contains(lower(fn), needle_parts_l[i]))
    /\ contains(fn, ballot_l)

\* Lines 119-122: the test of one file name in the case-insensitive branch.
MatchesLowered(fn, needle_parts_l, ballot_l) ==
    /\ endswith(lower(fn), ExtPdf)
    /\ LET low == lower(fn) IN
       /\ \E i \in DOMAIN needle_parts_l : contains(low, needle_parts_l[i])
       /\ contains(low, ballot_l)

\* Lines 127-129: the test of one file name in the case-sensitive branch.
MatchesExact(fn, needle_parts, ballot_type) ==
    /\ endswith(fn, ExtPdf)
    /\ \E i \in DOMAIN needle_parts : contains(fn, needle_parts[i])
    /\ contains(fn, ballot_type)

\* The loop over the files of one directory with the test applied to the
\* path below the language directory instead of the file name.
RECURSIVE HitsInFiles_path(_, _, _, _, _)
HitsInFiles_path(root, files, needles, ballot, ci) ==
    IF files = <<>> THEN <<>>
    ELSE LET fn == Head(files)
             full == Concat(SubSeq(root, 3, Len(root))) \o fn
             hit == IF ci THEN MatchesLowered(full, needles, ballot)
                          ELSE MatchesExact(full, needles, ballot)
         IN  (IF hit THEN <<joinpath(root, fn)>> ELSE <<>>)
             \o HitsInFiles_path(root, Tail(files), needles, ballot, ci)

\* The two loops "for root, _, files in os.walk(...): for fn in files:",
\* appending each hit in the order met.
RECURSIVE HitsInFiles(_, _, _, _, _)
HitsInFiles(root, files, needles, ballot, ci) ==
    IF files = <<>> THEN <<>>
    ELSE LET fn == Head(files)
             hit == IF ci THEN MatchesLowered(fn, needles, ballot)
                          ELSE MatchesExact(fn, needles, ballot)
         IN  (IF hit THEN <<joinpath(root, fn)>> ELSE <<>>)
             \o HitsInFiles(root, Tail(files), needles, ballot, ci)

\* The two loops returning at the first hit.
RECURSIVE HitsInWalk_first(_, _, _, _)
HitsInWalk_first(w, needles, ballot, ci) ==
    IF w = <<>> THEN <<>>
    ELSE LET h == HitsInFiles(Head(w).root, Head(w).files, needles, ballot, ci)
         IN  IF h # <<>> THEN <<h[1]>>
             ELSE HitsInWalk_first(Tail(w), needles, ballot, ci)

RECURSIVE HitsInWalk(_, _, _, _)
HitsInWalk(w, needles, ballot, ci) ==
    IF w = <<>> THEN <<>>
    ELSE HitsInFiles(Head(w).root, Head(w).files, needles, ballot, ci)
         \o HitsInWalk(Tail(w), needles, ballot, ci)

\* find_pdf falling back to the whole root when the language directory is
\* missing: every language directory of the root is walked.
find_pdf_rootfallback(base_dir, lang_dirname, needle_parts, ballot_type, case_insensitive) ==
    LET n == IF case_insensitive
             THEN [i \in DOMAIN needle_parts |-> lower(needle_parts[i])]
             ELSE needle_parts
        b == IF case_insensitive THEN lower(ballot_type) ELSE ballot_type
        In(l) == IF isdir(base_dir, l)
                 THEN HitsInWalk(walk(<<base_dir, l>>, LangEntry(base_dir, l)),
                                 n, b, case_insensitive)
                 ELSE <<>>
    IN  IF isdir(base_dir, lang_dirname) THEN In(lang_dirname)
        ELSE In("English") \o In("Spanish")

find_pdf(base_dir, lang_dirname, needle_parts, ballot_type, case_insensitive) ==
    IF ~isdir(base_dir, lang_dirname) THEN <<>>
    ELSE LET w == walk(<<base_dir, lang_dirname>>, LangEntry(base_dir, lang_dirname)) IN
         IF case_insensitive
         THEN HitsInWalk(w, [i \in DOMAIN needle_parts |-> lower(needle_parts[i])],
                         lower(ballot_type), TRUE)
         ELSE HitsInWalk(w, needle_parts, ballot_type, FALSE)

(***************************************************************************)
(* Harness for validate_precinct_split and build_candidates                *)
(***************************************************************************)

\* Bounds of the input texts.
MaxPad == 1
MaxShort == 2

PadChars == {" ", "\t"}
EditChars == {"5", ".", "_", "-", "x", " ", "u0663"}
ShortChars == {"1", ".", "a", " "}

\* Well-formed precinct texts, with either separator.
BaseTexts == {P1704dot, P6432us}

RemoveAt(s, i) == SubSeq(s, 1, i - 1) \o SubSeq(s, i + 1, Len(s))
InsertAt(s, i, c) == SubSeq(s, 1, i) \o <<c>> \o SubSeq(s, i + 1, Len(s))
ReplaceAt(s, i, c) == [s EXCEPT ![i] = c]

\* Every text one keystroke away from a well-formed one: a character
\* deleted, inserted or overtyped.
OneEdit(b) ==
    {RemoveAt(b, i) : i \in 1..Len(b)}
    \cup {InsertAt(b, i, c) : i \in 0..Len(b), c \in EditChars}
    \cup {ReplaceAt(b, i, c) : i \in 1..Len(b), c \in EditChars}

CoreTexts ==
    BaseTexts
    \cup UNION {OneEdit(b) : b \in BaseTexts}
    \cup SeqsUpTo(ShortChars, MaxShort)
    \cup {<<"a", "b", "c", "d", ".", "e", "f", "g">>,
          <<"1", "7", "0", "4", "4", ".", "1", "2", "3", "4">>,
          <<"1", "7", "0", "4", ".", "_", "1", "2", "3">>}

ValidateInputs ==
    {l \o m \o r : l \in SeqsUpTo(PadChars, MaxPad),
                   m \in CoreTexts,
                   r \in SeqsUpTo(PadChars, MaxPad)}

NoValue == [ok |-> FALSE, value |-> "none"]

NoLogPath == [dir |-> <<>>, name |-> <<>>]

NoAct == [handler |-> "none", log |-> <<>>, osCalls |-> <<>>, dialogs |-> <<>>,
          summary |-> <<>>, fault |-> FALSE, raised |-> FALSE]

NoFatal == [logged |-> FALSE, dialog |-> FALSE, reraised |-> FALSE]

DevEnv ==
    [frozen |-> FALSE, meipass |-> FALSE,
     executable |-> <<"usr", "bin", "python3">>,
     file |-> <<"opt", "ballotlookup", "app.py">>,
     home |-> <<"home", "clerk">>]

\* Startup is not part of the harnesses either.
InitStart0 ==
    /\ env = DevEnv
    /\ configFile = [kind |-> "absent"]
    /\ LOG_PATH = NoLogPath
    /\ mpc = "off"
    /\ window = FALSE
    /\ fatal = NoFatal

\* The application is not part of the harnesses: its variables stay as
\* they are here.
InitApp0 ==
    /\ cfg = [primary_dir |-> "primary", backup_dir |-> "backup"]
    /\ stateFile = [kind |-> "absent"]
    /\ var_split = <<>>
    /\ var_lang = "English"
    /\ var_ballot = "STND"
    /\ pc = "idle"
    /\ run = [phase |-> "none"]
    /\ inflight = 0
    /\ act = NoAct

InitFind0 ==
    /\ fArgs = [lang |-> "English"]
    /\ fOut = <<>>
    /\ fpc = "off"

InitValidate ==
    /\ InitApp0
    /\ InitStart0
    /\ fs = [r \in {"primary", "backup"} |-> NoEntry]
    /\ InitFind0
    /\ vIn \in ValidateInputs
    /\ vOut = NoValue
    /\ vNeedles = <<>>
    /\ vpc = "input"

\* ok, normalized = validate_precinct_split(text)
Validate ==
    /\ vpc = "input"
    /\ vOut' = validate_precinct_split(vIn)
    /\ vpc' = IF vOut'.ok THEN "validated" ELSE "rejected"
    /\ UNCHANGED <<vIn, vNeedles>>
    /\ UNCHANGED appVars
    /\ UNCHANGED findVars
    /\ UNCHANGED startVars

\* needles = build_candidates(normalized)
BuildCandidates ==
    /\ vpc = "validated"
    /\ vNeedles' = build_candidates(vOut.value)
    /\ vpc' = "built"
    /\ UNCHANGED <<vIn, vOut>>
    /\ UNCHANGED appVars
    /\ UNCHANGED findVars
    /\ UNCHANGED startVars

NextValidate == Validate \/ BuildCandidates

SpecValidate == InitValidate /\ [][NextValidate]_vars

(***************************************************************************)
(* C1                                                                      *)
(***************************************************************************)

\* The text between the first and the last non-whitespace character.
Trimmed(s) ==
    LET keep == {i \in 1..Len(s) : s[i] \notin Whitespace} IN
    IF keep = {} THEN <<>>
    ELSE SubSeq(s, CHOOSE i \in keep : \A j \in keep : i <= j,
                   CHOOSE i \in keep : \A j \in keep : i >= j)

\* Exactly 4 digits, one '.' or '_', exactly 3 digits, and nothing else.
IsPrecinctShape(t) ==
    /\ Len(t) = PrecinctDigits + 1 + SplitDigits
    /\ \A i \in 1..PrecinctDigits : t[i] \in Digit
    /\ t[PrecinctDigits + 1] \in {".", "_"}
    /\ \A i \in (PrecinctDigits + 2)..Len(t) : t[i] \in Digit

\* C1: once a text has been validated, the result is (TRUE, canonical) with
\* the canonical form being the text's two digit groups joined by a dot
\* exactly when the trimmed text has the precinct shape, and (FALSE, format
\* hint) for every other text.
C1_ValidateIff ==
    vpc # "input" =>
        LET t == Trimmed(vIn) IN
        IF IsPrecinctShape(t)
        THEN /\ vOut.ok
             /\ vOut.value = [t EXCEPT ![PrecinctDigits + 1] = "."]
        ELSE /\ ~vOut.ok
             /\ vOut.value = FormatHint

\* An underscore text with surrounding whitespace was accepted and came out
\* with the dot.
C1_Witness ==
    /\ vpc = "validated"
    /\ vIn = <<" ">> \o P6432us \o <<"\t">>
    /\ vOut = [ok |-> TRUE, value |-> P6432dot]

(***************************************************************************)
(* C8                                                                      *)
(***************************************************************************)

\* C8: for a canonical precinct code, build_candidates returns exactly two
\* strings: the code itself (dot form) first, and second the same digit
\* groups joined by an underscore.
C8_TwoCandidates ==
    vpc = "built" =>
        /\ Len(vNeedles) = 2
        /\ vNeedles[1] = vOut.value
        /\ vNeedles[2] = [vOut.value EXCEPT ![PrecinctDigits + 1] = "_"]
        /\ SubSeq(vNeedles[2], 1, PrecinctDigits) = SubSeq(Trimmed(vIn), 1, PrecinctDigits)
        /\ SubSeq(vNeedles[2], PrecinctDigits + 2, Len(vNeedles[2]))
             = SubSeq(Trimmed(vIn), PrecinctDigits + 2, Len(Trimmed(vIn)))

C8_Witness ==
    /\ vpc = "built"
    /\ vOut.value = P6432dot
    /\ vNeedles = <<P6432dot, P6432us>>

(***************************************************************************)
(* Harness for find_pdf                                                    *)
(***************************************************************************)

\* How deep below the language directory the harness nests a tree.
MaxDepth == 2

D_U18   == T_U18
D_STND  == T_STND
D_PND18 == T_PND18
D_sub   == <<"s", "u", "b">>

\* The tree of test_find_pdf_prefers_nested_u18_like_directory.
TreeNested ==
    DirNode(<<P1704us \o Us \o T_STND \o ExtPdf>>,
            <<SubDir(D_U18, DirNode(<<P1704dot \o Us \o T_U18 \o ExtPdf>>, <<>>))>>)

\* The ballot type only in a directory name, a wrong extension, mixed case.
TreeTypeInDir ==
    DirNode(<<P1704dot \o Us \o T_STND \o ExtTxt, P1704dot \o Us \o T_stnd \o ExtPDF>>,
            <<SubDir(D_STND, DirNode(<<P1704dot \o ExtPdf,
                                       P6432dot \o Us \o T_STND \o ExtPdf>>, <<>>))>>)

\* The tree of test_find_pdf_matches_case_insensitive_and_path_contains_ballot_type.
TreeMixedCase ==
    DirNode(<<>>,
            <<SubDir(D_PND18, DirNode(<<P6432dot \o Us \o T_pNd18 \o ExtPDF,
                                        P6432us \o Us \o T_PND18 \o ExtPdf>>, <<>>))>>)

\* Several files of one precinct and type, and one without a precinct.
TreeSeveral ==
    DirNode(<<T_STND \o ExtPdf,
              P1704dot \o Us \o T_STND \o V2 \o ExtPdf,
              P1704us \o Us \o T_STND \o ExtPdf>>,
            <<>>)

\* Files of one precinct and type at three depths, two of them with the
\* same name in different directories.
TreeSpread ==
    DirNode(<<P1704dot \o Us \o T_STND \o ExtPdf>>,
            <<SubDir(D_U18,
                     DirNode(<<P1704us \o Us \o T_STND \o ExtPdf,
                               P1704dot \o Us \o T_U18 \o ExtPdf>>,
                             <<SubDir(D_sub,
                                      DirNode(<<P1704dot \o Us \o T_STND \o V2 \o ExtPdf>>,
                                              <<>>))>>)),
              SubDir(D_STND, DirNode(<<P1704dot \o Us \o T_STND \o ExtPdf>>, <<>>))>>)

LangTrees == {TreeNested, TreeTypeInDir, TreeMixedCase, TreeSeveral, TreeSpread}

RECURSIVE Nest(_, _)
Nest(node, k) ==
    IF k = 0 THEN node ELSE DirNode(<<>>, <<SubDir(D_sub, Nest(node, k - 1))>>)

FindRoots ==
    {NoEntry}
    \cup {RootDir([l \in {"English", "Spanish"} |->
                      IF l = "English" THEN Nest(t, k) ELSE PlainFile])
          : t \in LangTrees, k \in 0..MaxDepth}

FindLangs == {"English", "Spanish", "Somali"}
FindBallots == {T_STND, T_stnd, T_U18, T_PND18, T_pNd18}
FindNeedles ==
    {<<P1704dot, P1704us>>, <<P6432dot, P6432us>>, <<>>,
     <<<<"1", "2", "3", "_", "S">>>>}

\* Changes of letter case applied to a text.
LowerToUpper == [c \in LowerLetters |-> CHOOSE u \in UpperLetters : UpperToLower[u] = c]

upper(s) ==
    [i \in 1..Len(s) |-> IF s[i] \in LowerLetters THEN LowerToUpper[s[i]] ELSE s[i]]

swapcase(s) ==
    [i \in 1..Len(s) |->
        IF s[i] \in LowerLetters THEN LowerToUpper[s[i]]
        ELSE IF s[i] \in UpperLetters THEN UpperToLower[s[i]] ELSE s[i]]

CaseOps == {"lower", "upper", "swap"}

Recase(op, s) ==
    CASE op = "lower" -> lower(s)
      [] op = "upper" -> upper(s)
      [] op = "swap"  -> swapcase(s)

\* The same tree with every file name recased.
RECURSIVE RecaseNode(_, _)
RecaseNode(op, node) ==
    IF node.kind # "dir" THEN node
    ELSE DirNode([i \in DOMAIN node.files |-> Recase(op, node.files[i])],
                 [i \in DOMAIN node.dirs |->
                     SubDir(node.dirs[i].name, RecaseNode(op, node.dirs[i].node))])

RecaseRoot(op, r) ==
    IF r.kind # "dir" THEN r
    ELSE RootDir([l \in DOMAIN r.entries |-> RecaseNode(op, r.entries[l])])

InitValidate0 ==
    /\ vIn = <<>>
    /\ vOut = NoValue
    /\ vNeedles = <<>>
    /\ vpc = "off"

\* The tree is under "primary"; "backup" holds the same tree with its file
\* names recased.
InitFind ==
    /\ InitValidate0
    /\ InitApp0
    /\ InitStart0
    /\ \E r \in FindRoots, nameCase \in CaseOps :
          fs = [primary |-> r, backup |-> RecaseRoot(nameCase, r)]
    /\ \E l \in FindLangs, n \in FindNeedles, b \in FindBallots, ci \in BOOLEAN,
          needleCase \in CaseOps, ballotCase \in CaseOps :
          fArgs = [lang |-> l, needles |-> n, ballot |-> b, ci |-> ci,
                   needles2 |-> [i \in DOMAIN n |-> Recase(needleCase, n[i])],
                   ballot2 |-> Recase(ballotCase, b)]
    /\ fOut = [hits |-> <<>>, hits2 |-> <<>>]
    /\ fpc = "args"

\* hits = find_pdf(base, lang, needles, ballot, case_insensitive=ci)
FindPdf ==
    /\ fpc = "args"
    /\ fOut' = [fOut EXCEPT !.hits =
                   find_pdf("primary", fArgs.lang, fArgs.needles, fArgs.ballot, fArgs.ci)]
    /\ fpc' = "found"
    /\ UNCHANGED fArgs
    /\ UNCHANGED startVars
    /\ UNCHANGED appVars
    /\ UNCHANGED validateVars

\* The same search with the letter case of the file names, the needles and
\* the ballot type changed.
FindPdfRecased ==
    /\ fpc = "found"
    /\ fOut' = [fOut EXCEPT !.hits2 =
                   find_pdf("backup", fArgs.lang, fArgs.needles2, fArgs.ballot2, fArgs.ci)]
    /\ fpc' = "both"
    /\ UNCHANGED fArgs
    /\ UNCHANGED startVars
    /\ UNCHANGED appVars
    /\ UNCHANGED validateVars

NextFind == FindPdf \/ FindPdfRecased

SpecFind == InitFind /\ [][NextFind]_vars

(***************************************************************************)
(* C3                                                                      *)
(***************************************************************************)

\* Every file below a directory node, at any depth, as the path find_pdf
\* would report for it.
RECURSIVE FilesBelow(_, _)
FilesBelow(path, node) ==
    {joinpath(path, node.files[i]) : i \in DOMAIN node.files}
    \cup UNION {FilesBelow(Append(path, node.dirs[i].name), node.dirs[i].node)
                : i \in DOMAIN node.dirs}

FilesUnder(base_dir, lang_dirname) ==
    IF isdir(base_dir, lang_dirname)
    THEN FilesBelow(<<base_dir, lang_dirname>>, LangEntry(base_dir, lang_dirname))
    ELSE {}

\* The comparison form of a text: lower-cased when the flag is set.
Folded(ci, s) == IF ci THEN lower(s) ELSE s

\* The three conditions of a hit, on the file name alone.
NameIsHit(name, needles, ballot, ci) ==
    /\ endswith(Folded(ci, name), ExtPdf)
    /\ \E i \in DOMAIN needles : contains(Folded(ci, name), Folded(ci, needles[i]))
    /\ contains(Folded(ci, name), Folded(ci, ballot))

SameFilesUpToCase(h1, h2) ==
    /\ Len(h1) = Len(h2)
    /\ \A i \in DOMAIN h1 :
          /\ Tail(h1[i].dir) = Tail(h2[i].dir)
          /\ lower(h1[i].name) = lower(h2[i].name)

\* C9: with the case-insensitive flag set, a search after changing the
\* letter case of the file names, of the needles and of the ballot type
\* finds the same files as the search before the change.
C9_CaseInvariant ==
    (fpc = "both" /\ fArgs.ci) => SameFilesUpToCase(fOut.hits, fOut.hits2)

\* 6432.732_pNd18.PDF is found for ballot type PND18, and again after the
\* recasing.
C9_Witness ==
    /\ fpc = "both"
    /\ fArgs.ci
    /\ fArgs.ballot = T_PND18
    /\ fArgs.ballot2 = lower(T_PND18)
    /\ \E i \in DOMAIN fOut.hits :
          /\ fOut.hits[i].name = P6432dot \o Us \o T_pNd18 \o ExtPDF
          /\ fOut.hits2[i].name = upper(fOut.hits[i].name)

(***************************************************************************)
(* Persisted state: read_state, write_state                                *)
(***************************************************************************)

EmptyDict == <<>>

DictSet(d, k, v) == [x \in (DOMAIN d) \cup {k} |-> IF x = k THEN v ELSE d[x]]

FileAbsent  == [kind |-> "absent"]
FileCorrupt == [kind |-> "corrupt"]
FileJson(d) == [kind |-> "json", data |-> d]

\* read_state: the parsed dictionary, or {} when the file is missing or
\* does not parse.
read_state == IF stateFile.kind = "json" THEN stateFile.data ELSE EmptyDict

\* write_state with the exception escaping to the caller.
write_state_raises(d, outcome) ==
    CASE outcome = "ok"        -> [file |-> FileJson(d), log |-> <<>>, raised |-> FALSE]
      [] outcome = "open_fail" -> [file |-> stateFile, log |-> <<>>, raised |-> TRUE]
      [] outcome = "dump_fail" -> [file |-> FileCorrupt, log |-> <<>>, raised |-> TRUE]

\* write_state(d).  outcome is what the operating system does with the
\* write: "ok"; "open_fail", open(STATE_PATH, "w") raises and the file is
\* untouched; "dump_fail", the file was opened (and so truncated) and the
\* write raised.  Either exception is caught and logged as a warning.
write_state(d, outcome) ==
    CASE outcome = "ok"        -> [file |-> FileJson(d), log |-> <<>>, raised |-> FALSE]
      [] outcome = "open_fail" -> [file |-> stateFile,
                                   log |-> <<"Failed to write state">>, raised |-> FALSE]
      [] outcome = "dump_fail" -> [file |-> FileCorrupt,
                                   log |-> <<"Failed to write state">>, raised |-> FALSE]

WriteOutcomes == {"ok", "open_fail", "dump_fail"}

(***************************************************************************)
(* open_or_print_pdf                                                       *)
(***************************************************************************)

Systems == {"Windows", "Darwin", "Linux"}

\* What the operating system does with the command: "ok", it is started
\* (whatever its exit status, which check=False ignores); "unavailable",
\* the executable or the registered handler is missing and the call raises
\* OSError (FileNotFoundError from subprocess.run).
OsOutcomes == {"ok", "unavailable"}

Startfile(path)     == [fn |-> "os.startfile", args |-> <<path>>]
StartfilePrint(path) == [fn |-> "os.startfile", args |-> <<path, "print">>]
Run(cmd, path)      == [fn |-> "subprocess.run", args |-> <<cmd, path>>]

\* open_or_print_pdf with the Darwin and the other-platform open commands
\* exchanged.
open_or_print_pdf_swapped(path, open_instead, system, os) ==
    IF open_instead
    THEN [log     |-> <<"Opening">>,
          osCalls |-> <<CASE system = "Windows" -> Startfile(path)
                          [] system = "Darwin"  -> Run("xdg-open", path)
                          [] OTHER              -> Run("open", path)>>,
          dialogs |-> <<>>,
          raised  |-> os = "unavailable"]
    ELSE IF system = "Windows"
    THEN [log     |-> <<"Printing">>,
          osCalls |-> <<StartfilePrint(path)>>,
          dialogs |-> IF os = "unavailable" THEN <<"Print Error">> ELSE <<>>,
          raised  |-> FALSE]
    ELSE [log     |-> <<"Printing">>,
          osCalls |-> <<Run("lp", path)>>,
          dialogs |-> <<>>,
          raised  |-> os = "unavailable"]

\* open_or_print_pdf(path, open_instead): the log lines written, the OS
\* calls made, the dialogs shown, and whether an exception leaves the
\* function.
open_or_print_pdf(path, open_instead, system, os) ==
    IF open_instead
    THEN [log     |-> <<"Opening">>,
          osCalls |-> <<CASE system = "Windows" -> Startfile(path)
                          [] system = "Darwin"  -> Run("open", path)
                          [] OTHER              -> Run("xdg-open", path)>>,
          dialogs |-> <<>>,
          \* lines 138-142: no try/except around any of the three calls
          raised  |-> os = "unavailable"]
    ELSE IF system = "Windows"
    THEN [log     |-> <<"Printing">>,
          osCalls |-> <<StartfilePrint(path)>>,
          \* lines 148-151: OSError is caught and shown
          dialogs |-> IF os = "unavailable" THEN <<"Print Error">> ELSE <<>>,
          raised  |-> FALSE]
    ELSE [log     |-> <<"Printing">>,
          osCalls |-> <<Run("lp", path)>>,
          dialogs |-> <<>>,
          \* lines 153, 155: no try/except
          raised  |-> os = "unavailable"]

(***************************************************************************)
(* The application: configuration, entry texts, search roots               *)
(***************************************************************************)

\* dict lookup in a JSON object kept as its (key, value) pairs in file order
DictGet(pairs, key) ==
    pairs[CHOOSE i \in DOMAIN pairs : pairs[i].key = key].value

\* list(d.keys())[0]
FirstKey(pairs) == pairs[1].key

BallotTypesA == <<[key |-> "STND", value |-> T_STND], [key |-> "U18", value |-> T_U18]>>
BallotTypesB == <<[key |-> "U18", value |-> T_U18], [key |-> "STND", value |-> T_STND]>>
Languages == <<[key |-> "English", value |-> "English"],
               [key |-> "Espanol", value |-> "Spanish"]>>

\* config.json, with case_insensitive true, false or left out.
Configs ==
    {[primary_dir |-> "primary", backup_dir |-> "backup",
      languages |-> Languages, ballot_types |-> bt] : bt \in {BallotTypesA, BallotTypesB}}
    \cup
    {[primary_dir |-> "primary", backup_dir |-> "backup",
      languages |-> Languages, ballot_types |-> BallotTypesA, case_insensitive |-> ci]
        : ci \in BOOLEAN}

\* What the user may type into the precinct entry.
EntryTexts ==
    {<<" ">> \o P1704us \o <<" ">>, P6432dot, P170dot, P1704dot \o <<"4">>}

\* The trees a search root may hold.
AppRoots ==
    {NoEntry,
     RootDir([l \in {"English", "Spanish"} |-> IF l = "English" THEN NoEntry ELSE PlainFile]),
     RootDir([l \in {"English", "Spanish"} |-> IF l = "English" THEN TreeNested ELSE NoEntry]),
     RootDir([l \in {"English", "Spanish"} |-> IF l = "English" THEN TreeSeveral ELSE TreeMixedCase]),
     RootDir([l \in {"English", "Spanish"} |-> IF l = "English" THEN TreeTypeInDir ELSE TreeSeveral])}

InitialStateFiles ==
    {FileAbsent, FileCorrupt,
     FileJson([k \in {"other"} |-> <<"x">>]),
     FileJson([k \in {"last_precinct"} |-> P6432dot])}

NoPath == [dir |-> <<>>, name |-> <<>>]

BlankRun ==
    [phase |-> "none", open_instead |-> FALSE, text |-> <<>>,
     stateBefore |-> FileAbsent, normalized |-> <<>>,
     wr |-> "none", searches |-> <<>>, primaryHits |-> <<>>, hits |-> <<>>,
     where |-> "none",
     prompted |-> FALSE, button |-> "none", sel |-> 0, target |-> NoPath,
     system |-> "none", os |-> "none",
     osCalls |-> <<>>, dialogs |-> <<>>, log |-> <<>>, raised |-> FALSE]

(***************************************************************************)
(* Startup: app_base_dir, user_state_dir, compute_log_path, load_config,   *)
(* setup_logging, main                                                     *)
(***************************************************************************)

\* os.path.dirname of a path kept as its components
dirname(path) == SubSeq(path, 1, Len(path) - 1)

\* app_base_dir(): next to the executable when frozen, next to app.py
\* otherwise.
app_base_dir(e) ==
    IF e.frozen /\ e.meipass THEN dirname(e.executable) ELSE dirname(e.file)

\* user_state_dir(): ~/.ballotlookup
user_state_dir(e) == Append(e.home, ".ballotlookup")

LogName == "ballotfinder.log"

\* A value of config.json as its JSON text.  bool() of the parsed value is
\* False for false, 0, the empty string and null (and for the None that
\* dict.get returns for a missing key).
JsonValues == {"true", "false", "1", "0", "\"yes\"", "\"\"", "null"}

Truthy(j) == j \notin {"false", "0", "\"\"", "null"}

\* compute_log_path taking a missing key for true.
compute_log_path_absent_app(c, e) ==
    IF "log_in_app_dir" \notin DOMAIN c \/ Truthy(c.log_in_app_dir)
    THEN joinpath(app_base_dir(e), LogName)
    ELSE joinpath(user_state_dir(e), LogName)

\* compute_log_path(cfg).  cfg is a dict here, for which .get does not
\* raise.
compute_log_path(c, e) ==
    IF "log_in_app_dir" \in DOMAIN c /\ Truthy(c.log_in_app_dir)
    THEN joinpath(app_base_dir(e), LogName)
    ELSE joinpath(user_state_dir(e), LogName)

Envs ==
    [frozen : BOOLEAN, meipass : BOOLEAN,
     executable : {<<"C:", "BallotFinder", "BallotFinder.exe">>,
                   <<"usr", "bin", "python3">>},
     file : {<<"opt", "ballotlookup", "app.py">>,
             <<"tmp", "_MEI1", "app.py">>},
     home : {<<"home", "clerk">>, <<"C:", "Users", "clerk">>}]

\* config.json with log_in_app_dir left out, or set to a JSON value.
StartConfigs ==
    {[primary_dir |-> "primary", backup_dir |-> "backup",
      languages |-> Languages, ballot_types |-> BallotTypesA]}
    \cup
    {[primary_dir |-> "primary", backup_dir |-> "backup",
      languages |-> Languages, ballot_types |-> BallotTypesA,
      log_in_app_dir |-> j] : j \in JsonValues}

ConfigFiles == {FileAbsent, FileCorrupt} \cup {FileJson(c) : c \in StartConfigs}

\* load_config(): raises when config.json is missing or does not parse.
load_config ==
    IF configFile.kind = "json"
    THEN [raised |-> FALSE, cfg |-> configFile.data]
    ELSE [raised |-> TRUE, cfg |-> EmptyDict]

\* The process has started and main() has not yet run.
InitStartup ==
    /\ InitValidate0
    /\ InitFind0
    /\ cfg = EmptyDict
    /\ fs = [r \in {"primary", "backup"} |-> NoEntry]
    /\ stateFile \in {FileAbsent, FileJson([k \in {"last_precinct"} |-> P6432dot])}
    /\ var_split = <<>>
    /\ var_lang = "English"
    /\ var_ballot = "STND"
    /\ pc = "idle"
    /\ run = [phase |-> "none"]
    /\ inflight = 0
    /\ act = NoAct
    /\ env \in Envs
    /\ configFile \in ConfigFiles
    /\ LOG_PATH = NoLogPath
    /\ mpc = "start"
    /\ window = FALSE
    /\ fatal = NoFatal

\* main's except clause: logging.exception, the error box (if it can be
\* shown), raise.
MainExcept(shown) == [logged |-> TRUE, dialog |-> shown, reraised |-> TRUE]

\* cfg = load_config()
LoadConfig ==
    /\ mpc = "start"
    /\ \E r \in {load_config} :
          IF r.raised
          THEN /\ \E shown \in BOOLEAN : fatal' = MainExcept(shown)
               /\ mpc' = "raised"
               /\ UNCHANGED cfg
          ELSE /\ cfg' = r.cfg
               /\ mpc' = "loaded"
               /\ UNCHANGED fatal
    /\ UNCHANGED <<fs, stateFile, var_split, var_lang, var_ballot, pc, run,
                   inflight, act>>
    /\ UNCHANGED <<env, configFile, LOG_PATH, window>>
    /\ UNCHANGED validateVars
    /\ UNCHANGED findVars

\* setup_logging(cfg): LOG_PATH is set, then the directory and the file
\* are created; dirok is whether os.makedirs and logging.basicConfig
\* succeed.
SetupLogging(dirok) ==
    /\ mpc = "loaded"
    /\ LOG_PATH' = compute_log_path(cfg, env)
    /\ IF dirok
       THEN /\ mpc' = "logging"
            /\ UNCHANGED fatal
       ELSE /\ \E shown \in BOOLEAN : fatal' = MainExcept(shown)
            /\ mpc' = "raised"
    /\ UNCHANGED appVars
    /\ UNCHANGED <<env, configFile, window>>
    /\ UNCHANGED validateVars
    /\ UNCHANGED findVars

\* app = App(cfg); app.mainloop()
CreateApp ==
    /\ mpc = "logging"
    /\ window' = TRUE
    /\ var_ballot' = FirstKey(cfg.ballot_types)
    /\ var_lang' = FirstKey(cfg.languages)
    /\ var_split' = IF "last_precinct" \in DOMAIN read_state
                    THEN read_state["last_precinct"] ELSE <<>>
    /\ mpc' = "mainloop"
    /\ UNCHANGED <<cfg, fs, stateFile, pc, run, inflight, act>>
    /\ UNCHANGED <<env, configFile, LOG_PATH, fatal>>
    /\ UNCHANGED validateVars
    /\ UNCHANGED findVars

NextStartup ==
    \/ LoadConfig
    \/ \E dirok \in BOOLEAN : SetupLogging(dirok)
    \/ CreateApp

SpecStartup == InitStartup /\ [][NextStartup]_vars

(***************************************************************************)
(* The application once constructed                                        *)
(***************************************************************************)

\* App.__init__: the first ballot type and language are selected, and the
\* precinct entry is restored from the persisted state.
Init ==
    /\ InitValidate0
    /\ InitFind0
    /\ cfg \in Configs
    /\ fs \in [{"primary", "backup"} -> AppRoots]
    /\ stateFile \in InitialStateFiles
    /\ var_ballot = FirstKey(cfg.ballot_types)
    /\ var_lang = FirstKey(cfg.languages)
    /\ var_split = IF "last_precinct" \in DOMAIN read_state
                   THEN read_state["last_precinct"] ELSE <<>>
    /\ pc = "idle"
    /\ run = BlankRun
    /\ inflight = 0
    /\ act = NoAct
    /\ env = DevEnv
    /\ configFile = FileJson(cfg)
    /\ LOG_PATH = compute_log_path(cfg, env)
    /\ mpc = "mainloop"
    /\ window = TRUE
    /\ fatal = NoFatal

(***************************************************************************)
(* on_find_print and choose_from_list                                      *)
(***************************************************************************)

SearchCall(root, lang_dirname, needles, ballot, ci) ==
    [root |-> root, lang |-> lang_dirname, needles |-> needles,
     ballot |-> ballot, ci |-> ci]

\* The search with the backup hits added to the primary hits.
Search_union(primary, backup, lang_dirname, needles, ballot, ci) ==
    LET hp == find_pdf(primary, lang_dirname, needles, ballot, ci)
        hb == find_pdf(backup, lang_dirname, needles, ballot, ci)
    IN  [searches |-> <<SearchCall(primary, lang_dirname, needles, ballot, ci),
                        SearchCall(backup, lang_dirname, needles, ballot, ci)>>,
         first |-> hp,
         hits |-> hp \o hb,
         where |-> IF hp = <<>> THEN "backup" ELSE "primary",
         log |-> <<>>]

\* Lines 259-264: the primary root first, the backup root when the primary
\* result is empty.
Search(primary, backup, lang_dirname, needles, ballot, ci) ==
    LET hp == find_pdf(primary, lang_dirname, needles, ballot, ci) IN
    IF hp # <<>>
    THEN [searches |-> <<SearchCall(primary, lang_dirname, needles, ballot, ci)>>,
          first |-> hp, hits |-> hp, where |-> "primary", log |-> <<>>]
    ELSE [searches |-> <<SearchCall(primary, lang_dirname, needles, ballot, ci),
                         SearchCall(backup, lang_dirname, needles, ballot, ci)>>,
          first |-> hp,
          hits |-> find_pdf(backup, lang_dirname, needles, ballot, ci),
          where |-> "backup",
          log |-> <<"Not found in primary. Trying backup...">>]

\* Line 272 with ">= 1": a single hit is put to the user too.
NeedsChoice_atleastone(hits) == Len(hits) >= 1

\* Line 272 without the test: the first hit is always taken.
NeedsChoice_never(hits) == FALSE

\* Line 272: "if len(hits) > 1"
NeedsChoice(hits) == Len(hits) > 1

\* choose_from_list returning the first path when nothing is selected.
Chosen_default_first(paths, sel) == IF sel # 0 THEN paths[sel] ELSE paths[1]

\* choose_from_list: sel is lb.curselection()[0] counted from 1 when OK is
\* pressed with an entry selected; 0 when OK is pressed with none, Cancel
\* is pressed or the window is closed.  None is NoPath.
Chosen(paths, sel) == IF sel # 0 THEN paths[sel] ELSE NoPath

\* Lines 280-282: log, dispatch, log.  An exception leaving
\* open_or_print_pdf leaves on_find_print too, before the last log line.
Dispatch(r, target, system, os) ==
    LET d == open_or_print_pdf(target, r.open_instead, system, os) IN
    [r EXCEPT !.phase = IF d.raised THEN "raised" ELSE "dispatched",
              !.target = target,
              !.system = system,
              !.os = os,
              !.osCalls = d.osCalls,
              !.dialogs = @ \o d.dialogs,
              !.raised = d.raised,
              !.log = @ \o <<"Found">> \o d.log
                        \o (IF d.raised THEN <<>>
                            ELSE <<IF r.open_instead THEN "Opened" ELSE "Sent to printer">>)]

\* Lines 245-247 storing the entry text as typed (trimmed) instead of the
\* normalized form.
Remember_raw(normalized, outcome) ==
    write_state(DictSet(read_state, "last_precinct", strip(var_split)), outcome)

\* Lines 245-247 left out: the precinct is not remembered.
Remember_skipped(normalized, outcome) ==
    [file |-> stateFile, log |-> <<>>, raised |-> FALSE]

\* Lines 245-247: st = read_state(); st["last_precinct"] = normalized;
\* write_state(st)
Remember(normalized, outcome) ==
    write_state(DictSet(read_state, "last_precinct", normalized), outcome)

\* The chooser opened without a grab.
GrabHeld_never(p) == FALSE

\* Lines 309-311: dlg.grab_set() directs the input to the chooser for as
\* long as it is open, that is, while wait_window runs its event loop.
GrabHeld(p) == p = "choosing"

\* The widgets of the main window receive events: an event loop is running
\* (the main loop, or the chooser's wait_window) and no grab keeps the
\* input from them.
MainWindowReachable ==
    \/ pc = "idle"
    \/ pc = "choosing" /\ ~GrabHeld(pc)

\* The button handler, up to its return or to the modal chooser.  wr,
\* system and os are what the environment does with the state write and
\* with the dispatch, when the handler gets that far.
OnFindPrint(open_instead) ==
    /\ MainWindowReachable
    /\ inflight' = inflight + 1
    /\ \E v \in {validate_precinct_split(var_split)} :
       LET start == [BlankRun EXCEPT !.open_instead = open_instead,
                                     !.text = var_split,
                                     !.stateBefore = stateFile]
       IN  IF ~v.ok
           THEN /\ run' = [start EXCEPT !.phase = "rejected",
                                        !.log = <<"Error">>,
                                        !.dialogs = <<"Invalid Input">>]
                /\ pc' = "returned"
                /\ UNCHANGED stateFile
           ELSE \E wr \in WriteOutcomes : \E w \in {Remember(v.value, wr)} :
                IF w.raised
                THEN /\ stateFile' = w.file
                     /\ run' = [start EXCEPT !.phase = "raised", !.raised = TRUE,
                                             !.normalized = v.value, !.wr = wr]
                     /\ pc' = "returned"
                ELSE
                LET ballot == DictGet(cfg.ballot_types, var_ballot)
                    lang_dirname == DictGet(cfg.languages, var_lang)
                    needles == build_candidates(v.value)
                    ci == IF "case_insensitive" \in DOMAIN cfg
                          THEN cfg.case_insensitive ELSE TRUE
                IN  \E s \in {Search(cfg.primary_dir, cfg.backup_dir,
                                     lang_dirname, needles, ballot, ci)} :
                    LET found == [start EXCEPT !.normalized = v.value,
                                               !.wr = wr,
                                               !.searches = s.searches,
                                               !.primaryHits = s.first,
                                               !.hits = s.hits,
                                               !.where = s.where,
                                               !.log = w.log \o <<"Searching">> \o s.log]
                    IN  /\ stateFile' = w.file
                        /\ IF s.hits = <<>>
                           THEN /\ run' = [found EXCEPT
                                              !.phase = "notfound",
                                              !.log = @ \o <<"No matching PDF found.">>,
                                              !.dialogs = <<"Not Found">>]
                                /\ pc' = "returned"
                           ELSE IF NeedsChoice(s.hits)
                           THEN /\ run' = [found EXCEPT
                                              !.phase = "choosing",
                                              !.prompted = TRUE,
                                              !.log = @ \o <<"Multiple matches">>]
                                /\ pc' = "choosing"
                           ELSE /\ \E system \in Systems, os \in OsOutcomes :
                                      run' = Dispatch(found, s.hits[1], system, os)
                                /\ pc' = "returned"
    /\ UNCHANGED <<cfg, fs, var_split, var_lang, var_ballot, act>>
    /\ UNCHANGED validateVars
    /\ UNCHANGED findVars
    /\ UNCHANGED startVars

\* The rest of the handler once the chooser has closed with its result.
AfterChoice(button, sel, system, os) ==
    LET choice == Chosen(run.hits, sel) IN
    IF choice = NoPath
    THEN [run EXCEPT !.button = button, !.phase = "cancelled",
                     !.log = @ \o <<"User cancelled.">>]
    ELSE Dispatch([run EXCEPT !.button = button, !.sel = sel], choice, system, os)

\* OK pressed in the chooser, with entry number sel selected or (sel = 0)
\* with none.
DialogOk(sel) ==
    /\ pc = "choosing"
    /\ sel \in 0..Len(run.hits)
    /\ \E system \in Systems, os \in OsOutcomes :
          run' = AfterChoice("ok", sel, system, os)
    /\ pc' = "returned"
    /\ UNCHANGED <<cfg, fs, stateFile, var_split, var_lang, var_ballot,
                   inflight, act>>
    /\ UNCHANGED validateVars
    /\ UNCHANGED findVars
    /\ UNCHANGED startVars

\* Cancel pressed in the chooser, or its window closed.
DialogCancel ==
    /\ pc = "choosing"
    /\ run' = AfterChoice("cancel", 0, "none", "none")
    /\ pc' = "returned"
    /\ UNCHANGED <<cfg, fs, stateFile, var_split, var_lang, var_ballot,
                   inflight, act>>
    /\ UNCHANGED validateVars
    /\ UNCHANGED findVars
    /\ UNCHANGED startVars

\* The handler returns (or its exception is reported by Tk): the event loop
\* that called it waits for the next event.  That loop is the main loop, or
\* the chooser's wait_window when the handler was started from there.
BackToMainloop ==
    /\ pc = "returned"
    /\ inflight' = IF run.phase # "none" THEN inflight - 1 ELSE inflight
    /\ pc' = IF inflight' > 0 THEN "choosing" ELSE "idle"
    /\ run' = BlankRun
    /\ act' = NoAct
    /\ UNCHANGED <<cfg, fs, stateFile, var_split, var_lang, var_ballot>>
    /\ UNCHANGED validateVars
    /\ UNCHANGED findVars
    /\ UNCHANGED startVars

\* The user types another text into the precinct entry.  The chooser holds
\* the input grab while it is open (dlg.grab_set()), and the handler runs
\* on the one thread that also delivers the keystrokes.
SetSplit(text) ==
    /\ MainWindowReachable
    /\ text # var_split
    /\ var_split' = text
    /\ UNCHANGED <<cfg, fs, stateFile, var_lang, var_ballot, pc, run,
                   inflight, act>>
    /\ UNCHANGED validateVars
    /\ UNCHANGED findVars
    /\ UNCHANGED startVars

\* The user picks another language in the combobox.
SetLang(l) ==
    /\ MainWindowReachable
    /\ l # var_lang
    /\ var_lang' = l
    /\ UNCHANGED <<cfg, fs, stateFile, var_split, var_ballot, pc, run,
                   inflight, act>>
    /\ UNCHANGED validateVars
    /\ UNCHANGED findVars
    /\ UNCHANGED startVars

\* Lines 319-333, summarize(base): whether the root is a directory, the
\* number of files under its language directories whose lower-cased name
\* ends with .pdf, and the languages whose directory is missing.
RECURSIVE CountPdfs(_)
CountPdfs(w) ==
    IF w = <<>> THEN 0
    ELSE Len(SelectSeq(Head(w).files, LAMBDA f : endswith(lower(f), ExtPdf)))
         + CountPdfs(Tail(w))

RECURSIVE TotalPdfs(_, _)
TotalPdfs(base, langs) ==
    IF langs = <<>> THEN 0
    ELSE (IF isdir(base, Head(langs))
          THEN CountPdfs(walk(<<base, Head(langs)>>, LangEntry(base, Head(langs))))
          ELSE 0)
         + TotalPdfs(base, Tail(langs))

summarize(base, langs) ==
    IF base \notin DOMAIN fs \/ fs[base].kind # "dir"
    THEN [exists |-> FALSE, total |-> 0, missing |-> <<>>]
    ELSE [exists |-> TRUE,
          total |-> TotalPdfs(base, langs),
          missing |-> SelectSeq(langs, LAMBDA l : ~isdir(base, l))]

\* on_test_paths: both roots are summarized, three lines are logged and
\* the summary is shown.
on_test_paths ==
    LET langs == [i \in DOMAIN cfg.languages |-> cfg.languages[i].value] IN
    [handler |-> "test_paths",
     log     |-> <<"[Test Paths]", "Primary -> ", "Backup  -> ">>,
     osCalls |-> <<>>,
     dialogs |-> <<"Test Paths">>,
     summary |-> <<summarize(cfg.primary_dir, langs), summarize(cfg.backup_dir, langs)>>,
     fault   |-> FALSE,
     raised  |-> FALSE]

\* on_open_log: the platform's file manager is started on the log file (on
\* its directory elsewhere than Windows and Darwin); an exception is
\* logged and shown.
on_open_log(system, os) ==
    [handler |-> "open_log",
     log     |-> <<"Opening log">>
                 \o (IF os = "unavailable" THEN <<"Failed to open log">> ELSE <<>>),
     osCalls |-> <<CASE system = "Windows" ->
                          [fn |-> "subprocess.run",
                           args |-> <<"explorer", "/select,", LOG_PATH>>]
                     [] system = "Darwin" ->
                          [fn |-> "subprocess.run", args |-> <<"open", "-R", LOG_PATH>>]
                     [] OTHER ->
                          [fn |-> "subprocess.run", args |-> <<"xdg-open", LOG_PATH.dir>>]>>,
     dialogs |-> IF os = "unavailable" THEN <<"Ballot Finder & Printer">> ELSE <<>>,
     summary |-> <<>>,
     fault   |-> os = "unavailable",
     raised  |-> FALSE]

\* The Test Paths button.
OnTestPaths ==
    /\ MainWindowReachable
    /\ act' = on_test_paths
    /\ pc' = "returned"
    /\ UNCHANGED <<cfg, fs, stateFile, var_split, var_lang, var_ballot, run, inflight>>
    /\ UNCHANGED validateVars
    /\ UNCHANGED findVars
    /\ UNCHANGED startVars

\* The Open Log button.
OnOpenLog ==
    /\ MainWindowReachable
    /\ \E system \in Systems, os \in OsOutcomes : act' = on_open_log(system, os)
    /\ pc' = "returned"
    /\ UNCHANGED <<cfg, fs, stateFile, var_split, var_lang, var_ballot, run, inflight>>
    /\ UNCHANGED validateVars
    /\ UNCHANGED findVars
    /\ UNCHANGED startVars

Next ==
    \/ \E open_instead \in BOOLEAN : OnFindPrint(open_instead)
    \/ \E sel \in 0..Len(run.hits) : DialogOk(sel)
    \/ DialogCancel
    \/ BackToMainloop
    \/ OnTestPaths
    \/ OnOpenLog
    \/ \E text \in EntryTexts : SetSplit(text)
    \/ \E i \in DOMAIN Languages : SetLang(Languages[i].key)

Spec == Init /\ [][Next]_vars

(***************************************************************************)
(* Claims about on_find_print                                              *)
(***************************************************************************)

\* The arguments the run's searches are made with, read off the state.
RunLang    == DictGet(cfg.languages, var_lang)
RunBallot  == DictGet(cfg.ballot_types, var_ballot)
RunCi      == IF "case_insensitive" \in DOMAIN cfg THEN cfg.case_insensitive ELSE TRUE
RunNeedles == <<run.normalized, [run.normalized EXCEPT ![PrecinctDigits + 1] = "_"]>>

\* The run got as far as searching.
Searched ==
    \/ run.phase \in {"notfound", "choosing", "cancelled", "dispatched"}
    \/ run.phase = "raised" /\ run.osCalls # <<>>

\* The path an OS call was made on.
PathOfDispatch(c) ==
    IF c.fn = "os.startfile" THEN c.args[1] ELSE c.args[2]

(***************************************************************************)
(* C2                                                                      *)
(***************************************************************************)

\* C2: in every run that searches, the first search is on the primary
\* root; there is a second search exactly when the primary result is
\* empty, and it is on the backup root with the same language directory,
\* needles, ballot type and case flag; the run's result is the primary
\* result when that is non-empty and the backup result otherwise.
C2_Escalation ==
    Searched =>
        LET P == find_pdf(cfg.primary_dir, RunLang, RunNeedles, RunBallot, RunCi)
            B == find_pdf(cfg.backup_dir, RunLang, RunNeedles, RunBallot, RunCi)
        IN  /\ Len(run.searches) \in {1, 2}
            /\ run.searches[1] =
                 SearchCall(cfg.primary_dir, RunLang, RunNeedles, RunBallot, RunCi)
            /\ (Len(run.searches) = 2) <=> (P = <<>>)
            /\ Len(run.searches) = 2 =>
                 run.searches[2] = [run.searches[1] EXCEPT !.root = cfg.backup_dir]
            /\ run.hits = IF P # <<>> THEN P ELSE B
            /\ run.where = IF P # <<>> THEN "primary" ELSE "backup"

\* The primary language directory exists and yields nothing, the backup
\* yields one file, and that file is the result.
C2_Witness ==
    /\ run.phase = "dispatched"
    /\ isdir(cfg.primary_dir, RunLang)
    /\ run.primaryHits = <<>>
    /\ Len(run.searches) = 2
    /\ Len(run.hits) = 1
    /\ run.hits[1].dir[1] = cfg.backup_dir
    /\ run.target = run.hits[1]

(***************************************************************************)
(* C4                                                                      *)
(***************************************************************************)

\* C4: when the chosen tier's result has two or more entries, the chooser
\* is shown and nothing is dispatched while it is open; after a
\* cancellation no OS call has been made; otherwise exactly one OS call has
\* been made, on the entry the user selected.
C4_Disambiguation ==
    (run.phase # "none" /\ Len(run.hits) >= 2) =>
        /\ run.prompted
        /\ run.phase \in {"choosing", "cancelled", "dispatched", "raised"}
        /\ run.phase \in {"choosing", "cancelled"} =>
              /\ run.osCalls = <<>>
              /\ run.target = NoPath
        /\ run.phase = "choosing" <=> pc = "choosing"
        /\ run.phase \in {"dispatched", "raised"} =>
              /\ run.sel \in 1..Len(run.hits)
              /\ run.target = run.hits[run.sel]
              /\ Len(run.osCalls) = 1
              /\ PathOfDispatch(run.osCalls[1]) = run.hits[run.sel]

\* Three candidates, the user picked the second one, and it was dispatched.
C4_Witness ==
    /\ run.phase = "dispatched"
    /\ Len(run.hits) >= 2
    /\ run.sel = 2
    /\ PathOfDispatch(run.osCalls[1]) = run.hits[2]
    /\ run.hits[2] # run.hits[1]

\* Several candidates and the user cancelled: no OS call.
C4_WitnessCancel ==
    /\ run.phase = "cancelled"
    /\ Len(run.hits) >= 2
    /\ run.osCalls = <<>>

(***************************************************************************)
(* C5                                                                      *)
(***************************************************************************)

\* C5: open_or_print_pdf never raises to on_find_print when the OS command
\* is unavailable; the one case that is not swallowed is print on Windows,
\* which shows the Print Error dialog.
C5_NeverRaises ==
    (run.phase \in {"dispatched", "raised"} /\ run.os = "unavailable") =>
        /\ ~run.raised
        /\ ("Print Error" \in Range(run.dialogs))
              <=> (run.system = "Windows" /\ ~run.open_instead)

\* What the code does: the Windows print path alone catches the error.
C5_Observed ==
    (run.phase \in {"dispatched", "raised"} /\ run.os = "unavailable") =>
        IF run.system = "Windows" /\ ~run.open_instead
        THEN ~run.raised /\ "Print Error" \in Range(run.dialogs)
        ELSE run.raised /\ run.dialogs = <<>>

(***************************************************************************)
(* C6                                                                      *)
(***************************************************************************)

\* C6 as stated: after a run that found nothing in either tier, the
\* warning was shown, no OS call was made, and the persisted state is what
\* it was before the run.
C6_NotFoundNoSideEffect ==
    run.phase = "notfound" =>
        /\ run.dialogs = <<"Not Found">>
        /\ run.osCalls = <<>>
        /\ stateFile = run.stateBefore

\* What read_state gives for a state file.
DataOf(file) == IF file.kind = "json" THEN file.data ELSE EmptyDict

\* C6 as amended: after a run that found nothing in either tier, the
\* warning was shown and no OS call was made; the persisted state is what
\* the write made after validation left: the previous record with
\* last_precinct set to the validated canonical precinct when the write
\* succeeded, the file untouched when it could not be opened, truncated
\* when the write broke off.
C6_NotFoundOnlyRemembers ==
    run.phase = "notfound" =>
        /\ run.dialogs = <<"Not Found">>
        /\ run.osCalls = <<>>
        /\ run.hits = <<>>
        /\ Len(run.searches) = 2
        /\ run.wr = "ok" =>
              stateFile = FileJson(DictSet(DataOf(run.stateBefore),
                                           "last_precinct", run.normalized))
        /\ run.wr = "open_fail" => stateFile = run.stateBefore
        /\ run.wr = "dump_fail" => stateFile = FileCorrupt

\* Nothing found, and last_precinct is no longer what it was.
C6_Witness ==
    /\ run.phase = "notfound"
    /\ run.wr = "ok"
    /\ run.stateBefore = FileJson([k \in {"last_precinct"} |-> P6432dot])
    /\ stateFile = FileJson([k \in {"last_precinct"} |-> P1704dot])

(***************************************************************************)
(* C7                                                                      *)
(***************************************************************************)

\* C7: a run on a text that is not a well-formed precinct shows the Invalid
\* Input error and returns with the persisted state as it was, no search
\* made on either root and no OS call made.
C7_MalformedNoEffect ==
    (run.phase # "none" /\ ~IsPrecinctShape(Trimmed(run.text))) =>
        /\ run.phase = "rejected"
        /\ pc = "returned"
        /\ run.dialogs = <<"Invalid Input">>
        /\ run.log = <<"Error">>
        /\ stateFile = run.stateBefore
        /\ run.searches = <<>>
        /\ run.osCalls = <<>>

\* The text 170.123 was rejected while the roots hold files and a state
\* file exists.
C7_Witness ==
    /\ run.phase = "rejected"
    /\ run.text = P170dot
    /\ stateFile = FileJson([k \in {"last_precinct"} |-> P6432dot])
    /\ fs["primary"].kind = "dir"

(***************************************************************************)
(* C10                                                                     *)
(***************************************************************************)

\* C10: when root/language_dir is not an existing directory on the primary
\* root, the primary search returns the empty list without an error and the
\* run goes on to the backup root, whose result is the run's result.
C10_AbsentLanguageDir ==
    (Searched /\ ~isdir(cfg.primary_dir, RunLang)) =>
        /\ run.primaryHits = <<>>
        /\ Len(run.searches) = 2
        /\ run.searches[2].root = cfg.backup_dir
        /\ run.where = "backup"
        /\ \A i \in DOMAIN run.hits : run.hits[i].dir[1] = cfg.backup_dir
        /\ ~isdir(cfg.backup_dir, RunLang) => run.phase = "notfound"

\* The primary root holds files of another language but not the chosen
\* language directory; the file came from the backup root.
C10_Witness ==
    /\ run.phase = "dispatched"
    /\ fs[cfg.primary_dir].kind = "dir"
    /\ ~isdir(cfg.primary_dir, RunLang)
    /\ isdir(cfg.primary_dir, "English")
    /\ run.primaryHits = <<>>
    /\ run.target.dir[1] = cfg.backup_dir

\* The primary root itself is missing; the file came from the backup root.
C10_WitnessNoRoot ==
    /\ run.phase = "dispatched"
    /\ fs[cfg.primary_dir] = NoEntry
    /\ run.target.dir[1] = cfg.backup_dir

(***************************************************************************)
(* C11                                                                     *)
(***************************************************************************)

\* The canonical form of a well-formed precinct text: its digit groups
\* joined by a dot.
CanonicalOf(text) == [Trimmed(text) EXCEPT ![PrecinctDigits + 1] = "."]

IsCanonical(t) == IsPrecinctShape(t) /\ t[PrecinctDigits + 1] = "."

\* The run got past validation.
Validated == run.phase \notin {"none", "rejected"}

\* C11 as stated: in every run that got past validation, whatever came
\* after, the persisted record's last_precinct is the canonical form of the
\* precinct just validated.
C11_AlwaysRemembered ==
    Validated =>
        /\ stateFile.kind = "json"
        /\ "last_precinct" \in DOMAIN stateFile.data
        /\ stateFile.data["last_precinct"] = CanonicalOf(run.text)

\* C11 as amended: in every run that got past validation and whose state
\* write succeeded, whatever came after, the persisted record's
\* last_precinct is the canonical form of the precinct just validated and
\* the record's other keys are as before; after a failed write the file is
\* untouched or truncated.  Every last_precinct the state file ever holds is
\* a canonical-form string.
C11_RememberedWhenWritten ==
    /\ (Validated /\ run.wr = "ok") =>
          /\ stateFile.kind = "json"
          /\ stateFile.data = DictSet(DataOf(run.stateBefore), "last_precinct",
                                      CanonicalOf(run.text))
          /\ run.normalized = CanonicalOf(run.text)
    /\ (Validated /\ run.wr # "ok") => stateFile \in {run.stateBefore, FileCorrupt}
    /\ (stateFile.kind = "json" /\ "last_precinct" \in DOMAIN stateFile.data) =>
          IsCanonical(stateFile.data["last_precinct"])

\* " 1704_123 " was entered, nothing was found, and the record that held
\* 6432.732 now holds 1704.123.
C11_Witness ==
    /\ run.phase \in {"notfound", "cancelled", "raised"}
    /\ run.text = <<" ">> \o P1704us \o <<" ">>
    /\ run.wr = "ok"
    /\ run.stateBefore = FileJson([k \in {"last_precinct"} |-> P6432dot])
    /\ stateFile.data["last_precinct"] = P1704dot

(***************************************************************************)
(* C13                                                                     *)
(***************************************************************************)

\* C13: when the state write fails, the warning is logged, no exception
\* leaves write_state, and the run goes on to the same searches, the same
\* result and the same outcome as it has with a successful write.
C13_WriteFailureSwallowed ==
    (Validated /\ run.wr \in {"open_fail", "dump_fail"}) =>
        LET P == find_pdf(cfg.primary_dir, RunLang, RunNeedles, RunBallot, RunCi)
            B == find_pdf(cfg.backup_dir, RunLang, RunNeedles, RunBallot, RunCi)
            H == IF P # <<>> THEN P ELSE B
        IN  /\ ~(run.raised /\ run.osCalls = <<>>)
            /\ Searched
            /\ Len(run.log) >= 2
            /\ run.log[1] = "Failed to write state"
            /\ run.log[2] = "Searching"
            /\ run.searches # <<>>
            /\ run.hits = H
            /\ H = <<>> <=> run.phase = "notfound"
            /\ Len(H) > 1 <=> run.prompted
            /\ Len(H) = 1 => /\ run.phase \in {"dispatched", "raised"}
                             /\ run.target = H[1]

\* The file could not be opened for writing, and the one hit was dispatched
\* all the same.
C13_Witness ==
    /\ run.phase = "dispatched"
    /\ run.wr = "open_fail"
    /\ stateFile = run.stateBefore
    /\ Len(run.osCalls) = 1
    /\ "Failed to write state" \in Range(run.log)

(***************************************************************************)
(* C14                                                                     *)
(***************************************************************************)

\* The OS call the platform and the mode call for.
ExpectedCall(system, open_instead, path) ==
    IF open_instead
    THEN IF system = "Windows" THEN [fn |-> "os.startfile", args |-> <<path>>]
         ELSE IF system = "Darwin"
         THEN [fn |-> "subprocess.run", args |-> <<"open", path>>]
         ELSE [fn |-> "subprocess.run", args |-> <<"xdg-open", path>>]
    ELSE IF system = "Windows"
         THEN [fn |-> "os.startfile", args |-> <<path, "print">>]
         ELSE [fn |-> "subprocess.run", args |-> <<"lp", path>>]

PrintCalls(path) ==
    {[fn |-> "os.startfile", args |-> <<path, "print">>],
     [fn |-> "subprocess.run", args |-> <<"lp", path>>]}

\* C14: a run that reached the dispatcher made exactly one OS call, on the
\* target path, and it is the call of the run's platform and mode; open
\* mode made no print call and print mode made no open call.
C14_CommandSelection ==
    run.phase \in {"dispatched", "raised"} /\ run.system # "none" =>
        /\ run.osCalls = <<ExpectedCall(run.system, run.open_instead, run.target)>>
        /\ run.open_instead => run.osCalls[1] \notin PrintCalls(run.target)
        /\ ~run.open_instead => run.osCalls[1] \in PrintCalls(run.target)

\* On Darwin a file was opened with "open".
C14_Witness ==
    /\ run.phase = "dispatched"
    /\ run.system = "Darwin"
    /\ run.open_instead
    /\ run.osCalls = <<[fn |-> "subprocess.run", args |-> <<"open", run.target>>]>>
    /\ run.target # NoPath

(***************************************************************************)
(* C18                                                                     *)
(***************************************************************************)

\* C18: a run makes at most one OS call; the path it is made on is an entry
\* of the run's result; a result of exactly one entry is dispatched without
\* the chooser being shown.
C18_OneDispatchFromHits ==
    /\ Len(run.osCalls) <= 1
    /\ run.osCalls # <<>> =>
          /\ PathOfDispatch(run.osCalls[1]) \in Range(run.hits)
          /\ run.target = PathOfDispatch(run.osCalls[1])
    /\ (Validated /\ Len(run.hits) = 1) =>
          /\ ~run.prompted
          /\ pc # "choosing"
          /\ run.phase \in {"dispatched", "raised"}
          /\ Len(run.osCalls) = 1
          /\ PathOfDispatch(run.osCalls[1]) = run.hits[1]

\* One hit, no chooser, one OS call on it.
C18_Witness ==
    /\ run.phase = "dispatched"
    /\ Len(run.hits) = 1
    /\ ~run.prompted
    /\ Len(run.osCalls) = 1
    /\ PathOfDispatch(run.osCalls[1]) = run.hits[1]

(***************************************************************************)
(* C19                                                                     *)
(***************************************************************************)

\* The run after the chooser returned None: the cancellation is the last
\* thing logged, no path was taken, no OS call was made, nothing was raised.
EndedAsCancelled ==
    /\ run.phase = "cancelled"
    /\ run.prompted
    /\ Len(run.hits) > 1
    /\ run.target = NoPath
    /\ run.osCalls = <<>>
    /\ run.system = "none"
    /\ ~run.raised
    /\ run.log # <<>>
    /\ run.log[Len(run.log)] = "User cancelled."
    /\ "Opening" \notin Range(run.log)
    /\ "Printing" \notin Range(run.log)

\* C19: a run whose chooser was closed with OK while no entry was selected
\* ends as a run whose chooser was closed with Cancel ends: cancellation
\* logged, no path returned, no dispatch call.
C19_OkWithoutSelectionCancels ==
    /\ (run.button = "ok" /\ run.sel = 0) => EndedAsCancelled
    /\ run.button = "cancel" => EndedAsCancelled
    /\ (run.button = "ok" /\ run.sel # 0) => run.target = run.hits[run.sel]

\* OK was pressed with nothing selected and the run ended cancelled.
C19_Witness ==
    /\ pc = "returned"
    /\ run.button = "ok"
    /\ run.sel = 0
    /\ run.phase = "cancelled"
    /\ Len(run.hits) = 2

(***************************************************************************)
(* C15                                                                     *)
(***************************************************************************)

\* The files below a directory in the order a top-down walk meets them: the
\* directory's own files in listing order, then each subdirectory's, in
\* listing order, in the same way.
RECURSIVE VisitOrder(_, _)
RECURSIVE VisitDirs(_, _)
VisitOrder(path, node) ==
    [i \in DOMAIN node.files |-> joinpath(path, node.files[i])]
    \o VisitDirs(path, node.dirs)

VisitDirs(path, dirs) ==
    IF dirs = <<>> THEN <<>>
    ELSE VisitOrder(Append(path, dirs[1].name), dirs[1].node)
         \o VisitDirs(path, Tail(dirs))

VisitedUnder(base_dir, lang_dirname) ==
    IF isdir(base_dir, lang_dirname)
    THEN VisitOrder(<<base_dir, lang_dirname>>, LangEntry(base_dir, lang_dirname))
    ELSE <<>>

\* The positions of a visit order that hold a match.
RECURSIVE OnlyHits(_, _, _, _)
OnlyHits(visited, needles, ballot, ci) ==
    IF visited = <<>> THEN <<>>
    ELSE (IF NameIsHit(Head(visited).name, needles, ballot, ci)
          THEN <<Head(visited)>> ELSE <<>>)
         \o OnlyHits(Tail(visited), needles, ballot, ci)

\* C15: the result of a search is the walk's visit order of the files under
\* root/language_dir with the non-matching files left out: every match at
\* any depth, each once, in the order visited.
C15_EveryMatchInWalkOrder ==
    fpc # "args" =>
        LET V == VisitedUnder("primary", fArgs.lang)
            M == {f \in FilesUnder("primary", fArgs.lang) :
                     NameIsHit(f.name, fArgs.needles, fArgs.ballot, fArgs.ci)}
        IN  /\ fOut.hits = OnlyHits(V, fArgs.needles, fArgs.ballot, fArgs.ci)
            /\ Range(fOut.hits) = M
            /\ Len(fOut.hits) = Cardinality(M)
            /\ \A i, j \in DOMAIN fOut.hits : i # j => fOut.hits[i] # fOut.hits[j]

\* Four matches: at the top, one and two levels down, and in a second
\* subdirectory under the name of the first.
C15_Witness ==
    /\ fpc # "args"
    /\ Len(fOut.hits) = 4
    /\ Len(fOut.hits[1].dir) < Len(fOut.hits[2].dir)
    /\ Len(fOut.hits[2].dir) < Len(fOut.hits[3].dir)
    /\ Len(fOut.hits[4].dir) < Len(fOut.hits[3].dir)
    /\ fOut.hits[1].name = fOut.hits[4].name
    /\ fOut.hits[1] # fOut.hits[4]

(***************************************************************************)
(* C16                                                                     *)
(***************************************************************************)

\* C16: once setup_logging has run the log file is named ballotfinder.log;
\* it lies in the application base directory when the config has
\* log_in_app_dir true, and in the per-user state directory when
\* log_in_app_dir is false or left out.
C16_LogPath ==
    mpc \in {"logging", "mainloop"} =>
        LET appdir  == IF env.frozen /\ env.meipass
                       THEN SubSeq(env.executable, 1, Len(env.executable) - 1)
                       ELSE SubSeq(env.file, 1, Len(env.file) - 1)
            userdir == env.home \o <<".ballotlookup">>
            given   == "log_in_app_dir" \in DOMAIN cfg
        IN  /\ LOG_PATH.name = "ballotfinder.log"
            /\ LOG_PATH.dir \in {appdir, userdir}
            /\ (given /\ cfg.log_in_app_dir = "true") => LOG_PATH.dir = appdir
            /\ (given /\ cfg.log_in_app_dir = "false") => LOG_PATH.dir = userdir
            /\ ~given => LOG_PATH.dir = userdir

\* A frozen application with log_in_app_dir true logs next to its
\* executable.
C16_Witness ==
    /\ mpc = "mainloop"
    /\ env.frozen /\ env.meipass
    /\ "log_in_app_dir" \in DOMAIN cfg
    /\ cfg.log_in_app_dir = "true"
    /\ LOG_PATH = [dir |-> <<"C:", "BallotFinder">>, name |-> "ballotfinder.log"]

\* log_in_app_dir is left out and the log is under the home directory.
C16_WitnessAbsent ==
    /\ mpc = "mainloop"
    /\ "log_in_app_dir" \notin DOMAIN cfg
    /\ LOG_PATH = [dir |-> <<"home", "clerk", ".ballotlookup">>,
                   name |-> "ballotfinder.log"]

(***************************************************************************)
(* C17                                                                     *)
(***************************************************************************)

\* C17: at no time has more than one call of on_find_print not returned;
\* while a call waits in the chooser it is the only one, and the main
\* window, from which another could be started, receives no events.
C17_OneFindInFlight ==
    /\ inflight \in {0, 1}
    /\ pc = "idle" => inflight = 0
    /\ pc = "choosing" => inflight = 1 /\ ~MainWindowReachable
    /\ (pc = "returned" /\ run.phase # "none") => inflight = 1
    /\ (pc = "returned" /\ run.phase = "none") => inflight = 0

\* A call waits in the chooser, with two hits to choose from.
C17_Witness ==
    /\ pc = "choosing"
    /\ inflight = 1
    /\ run.prompted
    /\ Len(run.hits) = 2

(***************************************************************************)
(* C12                                                                     *)
(***************************************************************************)

\* The entries logged after the last "Found" entry of the run.
RECURSIVE AfterFound(_)
AfterFound(log) ==
    IF log = <<>> THEN <<>>
    ELSE IF log[Len(log)] = "Found" THEN <<>>
    ELSE Append(AfterFound(SubSeq(log, 1, Len(log) - 1)), log[Len(log)])

\* The entries a dispatch without a fault logs.
DispatchEntries == {"Opening", "Printing", "Opened", "Sent to printer"}

\* The dispatch of the run met a fault.
DispatchFault == run.phase \in {"dispatched", "raised"} /\ run.os = "unavailable"

\* C12: no fault met during find, test paths or open log leaves the
\* handler, and each is logged: a failed state write, an OS command that
\* cannot be started for the found file, one that cannot be started for
\* the log file (this one with a dialog).
C12_FaultsCaughtAndLogged ==
    /\ ~run.raised
    /\ ~act.raised
    /\ (Validated /\ run.wr \in {"open_fail", "dump_fail"}) =>
          "Failed to write state" \in Range(run.log)
    /\ DispatchFault =>
          \E i \in DOMAIN AfterFound(run.log) :
              AfterFound(run.log)[i] \notin DispatchEntries
    /\ act.fault =>
          /\ "Failed to open log" \in Range(act.log)
          /\ act.dialogs # <<>>

\* What the code does: state-write and open-log faults are caught and
\* logged; a dispatch fault is caught, and shown but not logged, only when
\* printing on Windows, and otherwise leaves on_find_print with nothing
\* logged or shown.
C12_Observed ==
    /\ ~act.raised
    /\ (Validated /\ run.wr \in {"open_fail", "dump_fail"}) =>
          "Failed to write state" \in Range(run.log)
    /\ act.fault =>
          /\ "Failed to open log" \in Range(act.log)
          /\ act.dialogs # <<>>
    /\ run.raised <=> (DispatchFault /\ ~(run.system = "Windows" /\ ~run.open_instead))
    /\ DispatchFault =>
          /\ \A i \in DOMAIN AfterFound(run.log) :
                AfterFound(run.log)[i] \in DispatchEntries
          /\ run.raised => "Print Error" \notin Range(run.dialogs)
          /\ ~run.raised => "Print Error" \in Range(run.dialogs)

\* Startup: without config.json main re-raises and no window is created; a
\* window exists only after a configuration was loaded.
C12_StartupConfigAbsent ==
    /\ (mpc # "start" /\ configFile.kind # "json") =>
          /\ mpc = "raised"
          /\ fatal.reraised
          /\ fatal.logged
          /\ ~window
          /\ LOG_PATH = NoLogPath
    /\ window => configFile.kind = "json" /\ ~fatal.reraised

=============================================================================
